---------------------------- MODULE Spec2Model ----------------------------
(***************************************************************************)
(* A model of the Tetris simulation core: Point / are_adj_points           *)
(* (point.py), Block, find_connected_groups and the piece factories        *)
(* (block.py), and Board (board.py).                                       *)
(*                                                                         *)
(* Coordinates.  A position is a pair <<row, col>>.  Centres of the I and  *)
(* O pieces lie on half cells (block.py:176, 180), so every coordinate is  *)
(* stored in half cells: the Python value v is stored as 2 * v.  One cell  *)
(* is U half cells; a square sits on the grid iff both coordinates are     *)
(* multiples of U.                                                         *)
(*                                                                         *)
(* Objects.  A Block object is a record with an id field standing for the  *)
(* object's identity (`is` in Python); main_block holds the id of the      *)
(* object it references, or None.                                          *)
(***************************************************************************)
EXTENDS Integers, Sequences, FiniteSets, TLC

VARIABLES
    blocks,      \* Board.blocks: the list of live Block objects
    main_block,  \* Board.main_block: id of the referenced Block, or None
    score,       \* Board.score
    dead,        \* Board.dead
    last,        \* the last Board operation, the branch it took, rows printed
    fall,        \* Board.update run step by step: the position in its loops
    points,      \* argument of find_connected_groups
    groups,      \* what find_connected_groups came to
    again,       \* what it came to on the concatenation of its own groups
    bl,          \* the Block remove_row is called on
    row,         \* the row passed to remove_row
    pieces,      \* what remove_row returned, and bl after the call
    other,       \* the second argument of a Block call: a piece, a direction
    result,      \* what a Block call came to
    game,        \* the Game screen: its speed, its milestone, its events
    pc           \* position of the caller of a pure function

vars == <<blocks, main_block, score, dead, last, fall, points, groups, again,
          bl, row, pieces, other, result, game, pc>>

boardVars == <<blocks, main_block, score, dead, last, fall>>
groupVars == <<points, groups, again>>
blockVars == <<bl, row, pieces, other, result>>

---------------------------------------------------------------------------
(* Bounds of the model *)

\* one cell, in half cells
U == 2

\* Board.dimensions = (Rows, Cols)
Rows == 2
Cols == 4

\* a new piece is placed while fewer than MaxBlocks pieces are live
MaxBlocks == 2

\* update is enabled while the score is below MaxScore
MaxScore == 1

\* the calls of remove_line made in a row
MaxLines == 2

\* the Game screen: update is called while the score is below MaxGameScore,
\* and a piece is placed while fewer than MaxGameBlocks pieces are live
MaxGameScore == 3
MaxGameBlocks == 2

\* find_connected_groups is applied to lists of at most MaxPts points
\* drawn from a grid of GridRows x GridCols cells
MaxPts == 4
GridRows == 2
GridCols == 4

\* Block.rotate is applied to pieces of at most MaxSquares squares with the
\* centre on any half cell of the grid, besides the factory shapes
MaxSquares == 2

None == 0

---------------------------------------------------------------------------
(* Sequences *)

Range(s) == {s[i] : i \in 1..Len(s)}

Abs(x) == IF x < 0 THEN -x ELSE x

RECURSIVE Concat(_)
Concat(ss) == IF ss = <<>> THEN <<>> ELSE Head(ss) \o Concat(Tail(ss))

\* list.remove(x): removes the first occurrence
RECURSIVE ListRemove(_, _)
ListRemove(s, x) ==
    IF s = <<>> THEN <<>>
    ELSE IF Head(s) = x THEN Tail(s)
    ELSE <<Head(s)>> \o ListRemove(Tail(s), x)

\* del d[k] on the insertion-ordered key list of a dict
DictDel(keys, k) == SelectSeq(keys, LAMBDA x : x # k)

InjectiveSeqs(S, n) ==
    {s \in UNION {[1..k -> S] : k \in 0..n} :
        \A i, j \in 1..Len(s) : i # j => s[i] # s[j]}

---------------------------------------------------------------------------
(* point.py *)

Row(p) == p[1]
Col(p) == p[2]

\* line 46: _move(row_move, col_move)
PointMove(p, row_move, col_move) == <<p[1] + row_move * U, p[2] + col_move * U>>

\* lines 33-43
PointDown(p)  == PointMove(p, 1, 0)
PointUp(p)    == PointMove(p, -1, 0)
PointLeft(p)  == PointMove(p, 0, -1)
PointRight(p) == PointMove(p, 0, 1)

\* mutant of are_adj_points: the vertical case is missing
are_adj_points_in_row(one, two) ==
    IF Row(one) = Row(two) THEN Abs(Col(one) - Col(two)) = U ELSE FALSE

\* lines 66-76
are_adj_points(one, two) ==
    IF Row(one) = Row(two) THEN Abs(Col(one) - Col(two)) = U
    ELSE IF Col(one) = Col(two) THEN Abs(Row(one) - Row(two)) = U
    ELSE FALSE

---------------------------------------------------------------------------
(* block.py: find_connected_groups                                         *)
(*                                                                         *)
(* The loop state: keys is the key list of adj_graph in insertion order    *)
(* (the value of a key that was never the current point is the list built  *)
(* at line 139), adjs is the list of the current point, grps is groups,    *)
(* p2g is points_to_groups, status is "ok", "hang" (the for loop of line   *)
(* 157 iterating the list it appends to) or "KeyError" (line 170).         *)

\* line 139: the adjacency list of pt
AdjList(pts, pt) == SelectSeq(pts, LAMBDA adj : are_adj_points(pt, adj))

\* line 139: keys of adj_graph, points with a non-empty adjacency list
AdjGraphKeys(pts) == SelectSeq(pts, LAMBDA pt : AdjList(pts, pt) # <<>>)

\* line 141
InitialGroups(pts) == [i \in 1..Len(pts) |-> <<pts[i]>>]

\* line 143
InitialPointsToGroups(pts) ==
    [p \in Range(pts) |-> CHOOSE i \in 1..Len(pts) : pts[i] = p]

\* lines 158-167: one iteration of the for loop, for adj_point
MergePoint(st, adj_point, acceptor_group) ==
    [st EXCEPT !.grps[acceptor_group] = Append(@, adj_point),
               !.p2g[adj_point] = acceptor_group,
               !.keys = DictDel(@, adj_point),
               !.adjs = ListRemove(@, adj_point)]

\* lines 157-167: the for loop over the members of the adjacent group
RECURSIVE MergePoints(_, _, _)
MergePoints(st, members, acceptor_group) ==
    IF members = <<>> THEN st
    ELSE MergePoints(MergePoint(st, Head(members), acceptor_group),
                     Tail(members), acceptor_group)

\* mutant of UseUpGroup: the merged group keeps its members
UseUpGroupSkipped(st, adj_point_group) == st

\* line 169: this group is used up
UseUpGroup(st, adj_point_group) == [st EXCEPT !.grps[adj_point_group] = <<>>]

\* lines 153-169: while adjs
RECURSIVE MergeAdjacencies(_, _)
MergeAdjacencies(st, acceptor_group) ==
    IF st.adjs = <<>> THEN st
    ELSE LET adj_point_group == st.p2g[Head(st.adjs)] IN
         IF adj_point_group = acceptor_group
         THEN [st EXCEPT !.status = "hang"]
         ELSE MergeAdjacencies(
                  UseUpGroup(MergePoints(st, st.grps[adj_point_group], acceptor_group),
                             adj_point_group),
                  acceptor_group)

\* mutant of CurPoint: the last key is taken
CurPointLast(st) == st.keys[Len(st.keys)]

\* line 148: next(iter(adj_graph.keys()))
CurPoint(st) == Head(st.keys)

\* line 150: adjs = adj_graph[cur_point]
WithAdjs(st, adjs) == [st EXCEPT !.adjs = adjs]

RECURSIVE ResolveAll(_, _)

\* line 170: del adj_graph[cur_point], and the next round of the while loop
Resolved(pts, merged, cur_point) ==
    IF merged.status # "ok" THEN merged
    ELSE IF cur_point \notin Range(merged.keys)
         THEN [merged EXCEPT !.status = "KeyError"]
         ELSE ResolveAll(pts, [merged EXCEPT !.keys = DictDel(@, cur_point)])

\* lines 146-170: while adj_graph
ResolveAll(pts, st) ==
    IF st.keys = <<>> THEN st
    ELSE Resolved(pts,
                  MergeAdjacencies(WithAdjs(st, AdjList(pts, CurPoint(st))),
                                   st.p2g[CurPoint(st)]),
                  CurPoint(st))

\* line 171
NonEmptyGroups(grps) == SelectSeq(grps, LAMBDA g : g # <<>>)

\* lines 135-171: [status, groups]
Returned(st) == [status |-> st.status, groups |-> NonEmptyGroups(st.grps)]

\* lines 135-171: [status, groups]
find_connected_groups(pts) ==
    Returned(ResolveAll(pts, [keys   |-> AdjGraphKeys(pts),
                              adjs   |-> <<>>,
                              grps   |-> InitialGroups(pts),
                              p2g    |-> InitialPointsToGroups(pts),
                              status |-> "ok"]))

---------------------------------------------------------------------------
(* colors.py: the piece colours, by name *)

BROKEN_PIECE_COLOR == "BROKEN"
SHADOW_COLOR == "SHADOW"
ShapeColors == {"I", "O", "T", "S", "Z", "J", "L"}

---------------------------------------------------------------------------
(* block.py: Block *)

\* lines 40-50: a new object; the owner of the reference gives it an id
Block(color, pos, center) ==
    [id |-> None, color |-> color, squares |-> pos, center |-> center]

\* line 72
has_square_at(b, pt) == \E i \in 1..Len(b.squares) : b.squares[i] = pt

\* lines 75-89: every element of _to_move, the squares and the centre, moves
BlockDown(b) ==
    [b EXCEPT !.squares = [i \in 1..Len(b.squares) |-> PointDown(b.squares[i])],
              !.center = PointDown(b.center)]

BlockUp(b) ==
    [b EXCEPT !.squares = [i \in 1..Len(b.squares) |-> PointUp(b.squares[i])],
              !.center = PointUp(b.center)]

BlockLeft(b) ==
    [b EXCEPT !.squares = [i \in 1..Len(b.squares) |-> PointLeft(b.squares[i])],
              !.center = PointLeft(b.center)]

BlockRight(b) ==
    [b EXCEPT !.squares = [i \in 1..Len(b.squares) |-> PointRight(b.squares[i])],
              !.center = PointRight(b.center)]

\* mutant of RotatedSquare: the direction is not looked at
RotatedSquareOneWay(sq, center, clockwise) ==
    <<Row(center) + (Col(sq) - Col(center)), Col(center) - (Row(sq) - Row(center))>>

\* lines 93-104: where rotate teleports one square
RotatedSquare(sq, center, clockwise) ==
    LET row_dist == Row(sq) - Row(center)
        col_dist == Col(sq) - Col(center)
        new_x == IF clockwise THEN Col(center) - row_dist ELSE Col(center) + row_dist
        new_y == IF clockwise THEN Row(center) + col_dist ELSE Row(center) - col_dist
    IN  <<new_y, new_x>>

\* lines 91-104
BlockRotate(b, clockwise) ==
    [b EXCEPT !.squares =
        [i \in 1..Len(b.squares) |-> RotatedSquare(b.squares[i], b.center, clockwise)]]

\* mutant of SquaresOffRow: the column is compared with r
SquaresOffRowByColumn(b, r) == SelectSeq(b.squares, LAMBDA sq : Col(sq) # r)

\* line 109: the squares that are not in row r
SquaresOffRow(b, r) == SelectSeq(b.squares, LAMBDA sq : Row(sq) # r)

\* lines 107-108: the fragment built from one group
Fragment(group) == Block(BROKEN_PIECE_COLOR, group, group[1])

\* lines 107-109: one fragment for each group
Fragments(found) == [i \in 1..Len(found) |-> Fragment(found[i])]

\* mutant of remove_row: the squares of the row are not taken out
remove_row_kept(b, r) == Fragments(find_connected_groups(b.squares).groups)

\* lines 106-109
remove_row(b, r) == Fragments(find_connected_groups(SquaresOffRow(b, r)).groups)

\* lines 118-119: __key, the set of _to_move and the colour
BlockKey(b) == <<Range(b.squares) \cup {b.center}, b.color>>

\* lines 112-113
BlockEq(a, b) == BlockKey(a) = BlockKey(b)

\* lines 118-119: the types of the two parts of the tuple __key returns
KeyTypes == <<"set", "tuple">>

\* the built-in types whose objects hash() refuses
Unhashable == {"set", "list", "dict"}

\* lines 121-122: hash(self.__key()), the hash of a tuple hashes its parts
BlockHash(b) ==
    IF \E i \in 1..Len(KeyTypes) : KeyTypes[i] \in Unhashable
    THEN [status |-> "TypeError", value |-> None]
    ELSE [status |-> "ok", value |-> BlockKey(b)]

\* lines 129-133
make_shadow_copy(original) == Block(SHADOW_COLOR, original.squares, original.center)

---------------------------------------------------------------------------
(* block.py: the factories; a is O_bottom_left *)

\* mutant of make_I_block: the centre is half a cell off in the row only
make_I_block_centred_on_column(a) ==
    Block("I", [k \in 1..4 |-> <<a[1], a[2] - (k - 1) * U + U>>],
          <<a[1] + 1, a[2]>>)

\* lines 174-176
make_I_block(a) ==
    Block("I", [k \in 1..4 |-> <<a[1], a[2] - (k - 1) * U + U>>],
          <<a[1] + 1, a[2] - 1>>)

\* lines 178-180: both coordinates of the centre are taken from a[1]
make_O_block(a) ==
    Block("O", <<<<a[1], a[2]>>, <<a[1], a[2] - U>>,
                 <<a[1] - U, a[2]>>, <<a[1] - U, a[2] - U>>>>,
          <<a[1] - 1, a[1] - 1>>)

\* lines 183, 196, 201
Straight(a) == [k \in 1..3 |-> <<a[1], a[2] + U - (k - 1) * U>>]

\* lines 182-185
make_T_block(a) == Block("T", Append(Straight(a), <<a[1] - U, a[2]>>), a)

\* lines 187-189
make_S_block(a) ==
    Block("S", <<<<a[1], a[2] + U>>, <<a[1], a[2]>>,
                 <<a[1] - U, a[2]>>, <<a[1] - U, a[2] - U>>>>, a)

\* lines 191-193
make_Z_block(a) ==
    Block("Z", <<<<a[1], a[2]>>, <<a[1], a[2] - U>>,
                 <<a[1] - U, a[2] + U>>, <<a[1] - U, a[2]>>>>, a)

\* lines 195-198
make_J_block(a) == Block("J", Append(Straight(a), <<a[1] - U, a[2] + U>>), a)

\* lines 200-203
make_L_block(a) == Block("L", Append(Straight(a), <<a[1] - U, a[2] - U>>), a)

\* lines 205-208: the factory random.choice picked
MakeBlock(shape, a) ==
    CASE shape = "I" -> make_I_block(a)
      [] shape = "O" -> make_O_block(a)
      [] shape = "T" -> make_T_block(a)
      [] shape = "S" -> make_S_block(a)
      [] shape = "Z" -> make_Z_block(a)
      [] shape = "J" -> make_J_block(a)
      [] shape = "L" -> make_L_block(a)

---------------------------------------------------------------------------
(* board.py: Board *)

\* lines 29-31
NORMAL_SPEED == 1
FAST_SPEED == 2
MAX_SPEED == 0

Speeds == {NORMAL_SPEED, FAST_SPEED, MAX_SPEED}

Ids(blks) == {blks[i].id : i \in 1..Len(blks)}

\* the object a reference denotes
Deref(blks, id) == blks[CHOOSE i \in 1..Len(blks) : blks[i].id = id]

\* a change of the object b made through any reference to it
Store(blks, b) == [i \in 1..Len(blks) |-> IF blks[i].id = b.id THEN b ELSE blks[i]]

\* the identity of a newly constructed object
FreshId(used) ==
    CHOOSE i \in 1..(Cardinality(used) + 1) :
        i \notin used /\ \A j \in 1..(i - 1) : j \in used

\* line 123
PointInbounds(pt) == Row(pt) <= Rows * U /\ 1 * U <= Col(pt) /\ Col(pt) <= Cols * U

\* lines 117-120
is_inbounds(item) == \A i \in 1..Len(item.squares) : PointInbounds(item.squares[i])

\* line 133: has_overlap(sq, ignore)
PointOverlap(blks, pt, ignore) ==
    \E i \in 1..Len(blks) : blks[i].id # ignore.id /\ has_square_at(blks[i], pt)

\* lines 127-130
has_overlap(blks, item) ==
    \E i \in 1..Len(item.squares) : PointOverlap(blks, item.squares[i], item)

\* mutant of can_fall: the other pieces are not looked at
can_fall_in_bounds(blks, b) == is_inbounds(BlockDown(b))

\* lines 137-141: the flag; bl is moved down and up again
can_fall(blks, b) ==
    LET lowered == BlockDown(b)
    IN  is_inbounds(lowered) /\ ~has_overlap(Store(blks, lowered), lowered)

\* lines 98-101: the main piece m after left()
TryLeft(blks, m) ==
    LET moved == BlockLeft(m)
        blks1 == Store(blks, moved)
    IN  IF has_overlap(blks1, moved) \/ ~is_inbounds(moved)
        THEN [blocks |-> Store(blks1, BlockRight(moved)), branch |-> "reverted"]
        ELSE [blocks |-> blks1, branch |-> "moved"]

\* mutant of TryRight: the move is not taken back
TryRightNoRevert(blks, m) == [blocks |-> Store(blks, BlockRight(m)), branch |-> "moved"]

\* lines 103-106: the main piece m after right()
TryRight(blks, m) ==
    LET moved == BlockRight(m)
        blks1 == Store(blks, moved)
    IN  IF has_overlap(blks1, moved) \/ ~is_inbounds(moved)
        THEN [blocks |-> Store(blks1, BlockLeft(moved)), branch |-> "reverted"]
        ELSE [blocks |-> blks1, branch |-> "moved"]

\* mutant of TryRotate: the rotation is never taken back
TryRotateNoRevert(blks, m, clockwise) ==
    [blocks |-> Store(blks, BlockRotate(m, clockwise)), branch |-> "rotated"]

\* lines 108-111: the main piece after rotate(clockwise)
TryRotate(blks, m, clockwise) ==
    LET rotated == BlockRotate(m, clockwise)
        blks1 == Store(blks, rotated)
    IN  IF ~is_inbounds(rotated)
        THEN [blocks |-> Store(blks1, BlockRotate(rotated, ~clockwise)),
              branch |-> "reverted"]
        ELSE [blocks |-> blks1, branch |-> "rotated"]

\* line 172
Falls(speed) == IF speed = MAX_SPEED THEN Rows ELSE speed

\* mutant of FallOnce: the piece goes down without the test of line 175
FallOnceUntested(blks, id) == Store(blks, BlockDown(Deref(blks, id)))

\* lines 175-176: one round of the inner loop for the piece with identity id
FallOnce(blks, id) ==
    IF can_fall(blks, Deref(blks, id))
    THEN Store(blks, BlockDown(Deref(blks, id)))
    ELSE blks

\* lines 174-176: the inner loop for the piece with identity id
RECURSIVE FallBlock(_, _, _)
FallBlock(blks, id, n) ==
    IF n = 0 THEN blks ELSE FallBlock(FallOnce(blks, id), id, n - 1)

\* lines 173-176: for bl in self.blocks, from position i on
RECURSIVE FallFrom(_, _, _)
FallFrom(blks, i, falls) ==
    IF i > Len(blks) THEN blks
    ELSE FallFrom(FallBlock(blks, blks[i].id, falls), i + 1, falls)

\* line 146
Occupied(blks) ==
    UNION {{<<Row(sq) - 1 * U, Col(sq) - 1 * U>> : sq \in Range(blks[i].squares)} :
              i \in 1..Len(blks)}

\* line 148: True for unoccupied cells, rows and columns counted from 0
Cells(blks) ==
    LET occupied == Occupied(blks)
    IN  [i \in 0..(Rows - 1) |-> [j \in 0..(Cols - 1) |-> <<i * U, j * U>> \notin occupied]]

\* lines 150-152: the rows remove_line is called with, in the order of the calls
CompletedRows(blks) ==
    LET cells == Cells(blks)
    IN  SelectSeq([k \in 1..Rows |-> k],
                  LAMBDA k : \A j \in 0..(Cols - 1) : ~cells[k - 1][j])

\* mutant of NotCut: the number of squares is not compared
NotCutAnyPieces(b, frags) == frags # <<>>

\* line 162: the block was not cut up
NotCut(b, frags) == frags # <<>> /\ Len(frags[1].squares) = Len(b.squares)

\* mutant of Placed: the pieces of a cut block are not added
PlacedDroppingCut(new_blocks, b, frags) ==
    IF NotCut(b, frags) THEN Append(new_blocks, b) ELSE new_blocks

\* lines 161-166: new_blocks after the piece b, cut into frags, is dealt with
Placed(new_blocks, b, frags) ==
    IF NotCut(b, frags) THEN Append(new_blocks, b) ELSE new_blocks \o frags

\* lines 159-166: the for loop from position i on, new_blocks so far
RECURSIVE CutFrom(_, _, _, _)
CutFrom(blks, i, r, new_blocks) ==
    IF i > Len(blks) THEN new_blocks
    ELSE CutFrom(blks, i + 1, r, Placed(new_blocks, blks[i], remove_row(blks[i], r * U)))

\* the fragments, new objects, get identities that no kept piece has and
\* that main_block does not reference
RECURSIVE WithIds(_, _)
WithIds(blks, used) ==
    IF blks = <<>> THEN <<>>
    ELSE IF Head(blks).id # None THEN <<Head(blks)>> \o WithIds(Tail(blks), used)
    ELSE <<[Head(blks) EXCEPT !.id = FreshId(used)]>>
             \o WithIds(Tail(blks), used \cup {FreshId(used)})

Allocated(blks, main) == WithIds(blks, Ids(blks) \cup {main})

\* mutant of remove_line: a row counts twice
remove_line_counted_twice(b, r, main) ==
    [blocks |-> Allocated(CutFrom(b.blocks, 1, r, <<>>), main),
     score  |-> b.score + 2,
     rows   |-> Append(b.rows, r)]

\* lines 154-168: b is [blocks, score, rows], rows the rows printed
remove_line(b, r, main) ==
    [blocks |-> Allocated(CutFrom(b.blocks, 1, r, <<>>), main),
     score  |-> b.score + 1,
     rows   |-> Append(b.rows, r)]

\* lines 150-152: the calls of remove_line, for the rows found at line 148
RECURSIVE RemoveEach(_, _, _)
RemoveEach(b, rs, main) ==
    IF rs = <<>> THEN b
    ELSE RemoveEach(remove_line(b, Head(rs), main), Tail(rs), main)

\* lines 143-152
remove_lines(b, main) == RemoveEach(b, CompletedRows(b.blocks), main)

\* mutant of MainInBlocks: the test of line 180 never fails
MainInBlocksAlways(blks, id, obj) == TRUE

\* line 180: self.main_block in self.blocks, by identity or by __eq__
MainInBlocks(blks, id, obj) ==
    \E i \in 1..Len(blks) : blks[i].id = id \/ BlockEq(blks[i], obj)

\* mutant of LostAt: row 0 does not count as lost
LostAtAboveZero(b) == \E i \in 1..Len(b.squares) : Row(b.squares[i]) < 0

\* line 185
LostAt(b) == \E i \in 1..Len(b.squares) :
                 /\ \A k \in 1..Len(b.squares) : Row(b.squares[i]) <= Row(b.squares[k])
                 /\ Row(b.squares[i]) <= 0

\* mutant of Settled: line 186 is left out, the main piece at rest stays set
SettledStillSet(cleared, main, obj, dd) ==
    IF ~can_fall(cleared.blocks, obj)
    THEN [blocks |-> cleared.blocks, score |-> cleared.score, rows |-> cleared.rows,
          main_block |-> main, dead |-> LostAt(obj), branch |-> "landed"]
    ELSE [blocks |-> cleared.blocks, score |-> cleared.score, rows |-> cleared.rows,
          main_block |-> main, dead |-> dd, branch |-> "falling"]

\* lines 184-186: the main piece obj is still referenced
Settled(cleared, main, obj, dd) ==
    IF ~can_fall(cleared.blocks, obj)
    THEN [blocks |-> cleared.blocks, score |-> cleared.score, rows |-> cleared.rows,
          main_block |-> None, dead |-> LostAt(obj), branch |-> "landed"]
    ELSE [blocks |-> cleared.blocks, score |-> cleared.score, rows |-> cleared.rows,
          main_block |-> main, dead |-> dd, branch |-> "falling"]

\* lines 180-186: obj is the object main_block references
AfterClear(cleared, main, obj, dd) ==
    IF ~MainInBlocks(cleared.blocks, main, obj)
    THEN [blocks |-> cleared.blocks, score |-> cleared.score, rows |-> cleared.rows,
          main_block |-> None, dead |-> dd, branch |-> "consumed"]
    ELSE Settled(cleared, main, obj, dd)

\* lines 179-186, main_block is None: both tests fail
AfterClearNoMain(cleared, dd) ==
    [blocks |-> cleared.blocks, score |-> cleared.score, rows |-> cleared.rows,
     main_block |-> None, dead |-> dd, branch |-> "no main"]

\* lines 179-186: fallen is self.blocks after the falling phase
AfterFall(fallen, main, sc, dd) ==
    IF main = None
    THEN AfterClearNoMain(remove_lines([blocks |-> fallen, score |-> sc, rows |-> <<>>], main),
                          dd)
    ELSE AfterClear(remove_lines([blocks |-> fallen, score |-> sc, rows |-> <<>>], main),
                    main, Deref(fallen, main), dd)

\* lines 170-186: [blocks, score, rows, main_block, dead, branch]
update(blks, main, sc, dd, speed) ==
    AfterFall(FallFrom(blks, 1, Falls(speed)), main, sc, dd)

\* lines 138-140: self.blocks when can_fall(b) returns, b moved down and up
Probed(blks, b) == Store(Store(blks, BlockDown(b)), BlockUp(BlockDown(b)))

\* a Python bool, as it prints
Bool(flag) == IF flag THEN "True" ELSE "False"

\* line 70: list.remove(obj) takes out the first element that is obj or is
\* equal to it (ValueError when there is none)
RECURSIVE ListRemoveBlock(_, _)
ListRemoveBlock(blks, obj) ==
    IF blks = <<>> THEN <<>>
    ELSE IF Head(blks).id = obj.id \/ BlockEq(Head(blks), obj) THEN Tail(blks)
    ELSE <<Head(blks)>> \o ListRemoveBlock(Tail(blks), obj)

\* lines 71-72: while self.can_fall(shadow): shadow.down()
RECURSIVE Dropped(_, _)
Dropped(blks, shadow) ==
    IF can_fall(blks, shadow) THEN Dropped(blks, BlockDown(shadow)) ELSE shadow

\* line 68: the shadow, a new object
Shadow(blks, obj) == [make_shadow_copy(obj) EXCEPT !.id = FreshId(Ids(blks))]

\* lines 68-74: obj is the object main_block references
ShadowDrawn(blks, obj, without) ==
    [blocks |-> Append(without, obj),
     shadow |-> Dropped(without, Shadow(blks, obj)),
     branch |-> "drawn"]

\* lines 66-74: [blocks, shadow, branch]
draw_main_shadow(blks, main) ==
    IF main = None
    THEN [blocks |-> blks, shadow |-> None, branch |-> "no main"]
    ELSE ShadowDrawn(blks, Deref(blks, main), ListRemoveBlock(blks, Deref(blks, main)))

\* the kinds of object that are neither a Block nor a Point
OtherKinds == {"int", "NoneType", "tuple"}

\* mutant of IsInbounds: an object of another kind is out of bounds
IsInboundsSilent(item) ==
    IF item.kind = "Block" THEN Bool(is_inbounds(item.obj))
    ELSE IF item.kind = "Point" THEN Bool(PointInbounds(item.pos))
    ELSE "False"

\* lines 117-125: how is_inbounds(item) ends
IsInbounds(item) ==
    IF item.kind = "Block" THEN Bool(is_inbounds(item.obj))
    ELSE IF item.kind = "Point" THEN Bool(PointInbounds(item.pos))
    ELSE "TypeError"

\* lines 127-135: how has_overlap(item) ends; ignore is None for a Point
HasOverlap(blks, item) ==
    IF item.kind = "Block" THEN Bool(has_overlap(blks, item.obj))
    ELSE IF item.kind = "Point" THEN Bool(PointOverlap(blks, item.pos, [id |-> None]))
    ELSE "TypeError"

---------------------------------------------------------------------------
(* The three parts of the state at rest: each specification below runs one *)
(* part and leaves the other two at rest                                   *)

NoCall == [status |-> "none", groups |-> <<>>]

\* update is not running
NotFalling == [at |-> "idle"]

BoardIdle ==
    /\ blocks = <<>>
    /\ main_block = None
    /\ score = 0
    /\ dead = FALSE
    /\ last = [op |-> "init", arg |-> 0, branch |-> "", rows |-> <<>>]
    /\ fall = NotFalling

BlockIdle ==
    /\ bl = <<>>
    /\ row = 0
    /\ pieces = <<>>
    /\ other = None
    /\ result = NoCall

GroupIdle ==
    /\ points = <<>>
    /\ groups = NoCall
    /\ again = NoCall

\* no Game screen has been made
NoGame == [at |-> "none", speed |-> None, next_score_milestone |-> None, events |-> <<>>]

GameIdle == game = NoGame

---------------------------------------------------------------------------
(* Specification of the Board under its operations *)

\* the anchors a new piece is built at: in the two rows above the board
\* (lines 41-42), at a column where each of the seven shapes is in bounds
SpawnAnchors == {<<0, c * U>> : c \in 3..(Cols - 1)}

Init ==
    /\ BoardIdle
    /\ GameIdle
    /\ GroupIdle
    /\ BlockIdle
    /\ pc = "board"

Did(op, arg, branch, rows) == [op |-> op, arg |-> arg, branch |-> branch, rows |-> rows]

\* board.py lines 113-115: random_block takes three arguments and is called
\* with one, the call raises TypeError before anything is assigned
NewFallingBlock ==
    /\ pc = "board"
    /\ last' = Did("new_falling_block", 0, "TypeError", <<>>)
    /\ UNCHANGED <<blocks, main_block, score, dead, fall, groupVars, blockVars, game, pc>>

\* board.py lines 114-115 with random_block given its arguments: the factory
\* picked and the anchor O_bottom_left are inputs
PlaceFallingBlock ==
    /\ pc = "board"
    /\ Len(blocks) < MaxBlocks
    /\ \E shape \in ShapeColors, a \in SpawnAnchors :
          LET id == FreshId(Ids(blocks) \cup {main_block})
          IN  /\ main_block' = id
              /\ blocks' = Append(blocks, [MakeBlock(shape, a) EXCEPT !.id = id])
              /\ last' = Did("place", 0, shape, <<>>)
    /\ UNCHANGED <<score, dead, fall, groupVars, blockVars, game, pc>>

\* board.py lines 98-101
Left ==
    /\ pc = "board"
    /\ main_block # None
    /\ LET r == TryLeft(blocks, Deref(blocks, main_block))
       IN  /\ blocks' = r.blocks
           /\ last' = Did("left", 0, r.branch, <<>>)
    /\ UNCHANGED <<main_block, score, dead, fall, groupVars, blockVars, game, pc>>

\* board.py lines 103-106
Right ==
    /\ pc = "board"
    /\ main_block # None
    /\ LET r == TryRight(blocks, Deref(blocks, main_block))
       IN  /\ blocks' = r.blocks
           /\ last' = Did("right", 0, r.branch, <<>>)
    /\ UNCHANGED <<main_block, score, dead, fall, groupVars, blockVars, game, pc>>

\* board.py lines 108-111
Rotate ==
    /\ pc = "board"
    /\ main_block # None
    /\ \E clockwise \in BOOLEAN :
          LET r == TryRotate(blocks, Deref(blocks, main_block), clockwise)
          IN  /\ blocks' = r.blocks
              /\ last' = Did("rotate", IF clockwise THEN 1 ELSE 0, r.branch, <<>>)
    /\ UNCHANGED <<main_block, score, dead, fall, groupVars, blockVars, game, pc>>

\* board.py lines 98, 103, 109: main_block is None, the call raises
\* AttributeError and the board is as it was
MoveWithoutMain ==
    /\ pc = "board"
    /\ main_block = None
    /\ \E op \in {"left", "right", "rotate"} :
          last' = Did(op, 0, "AttributeError", <<>>)
    /\ UNCHANGED <<blocks, main_block, score, dead, fall, groupVars, blockVars, game, pc>>

\* the board takes the outcome r of a call
Becomes(r, op, arg) ==
    /\ blocks' = r.blocks
    /\ main_block' = r.main_block
    /\ score' = r.score
    /\ dead' = r.dead
    /\ last' = Did(op, arg, r.branch, r.rows)

\* board.py lines 170-186
UpdateCall ==
    /\ pc = "board"
    /\ \E speed \in Speeds :
          \E out \in {update(blocks, main_block, score, dead, speed)} :
              Becomes(out, "update", speed)
    /\ UNCHANGED <<fall, groupVars, blockVars, game, pc>>

\* update, called while the score is below the bound of the model
Update == score < MaxScore /\ UpdateCall

Next ==
    \/ NewFallingBlock
    \/ PlaceFallingBlock
    \/ Left
    \/ Right
    \/ Rotate
    \/ MoveWithoutMain
    \/ Update

Spec == Init /\ [][Next]_vars

---------------------------------------------------------------------------
(* Specification of the Board with the calls that only look at it *)

\* board.py lines 137-141, for a live piece
CanFall ==
    /\ pc = "board"
    /\ \E i \in 1..Len(blocks) :
          /\ blocks' = Probed(blocks, blocks[i])
          /\ last' = Did("can_fall", blocks[i].id, Bool(can_fall(blocks, blocks[i])), <<>>)
    /\ UNCHANGED <<main_block, score, dead, fall, groupVars, blockVars, game, pc>>

\* the rows between the piece and its shadow
RowsBelow(obj, shadow) == (Row(shadow.center) - Row(obj.center)) \div U

\* the board takes the outcome r of _draw_main_shadow
Drawn(r, obj) ==
    /\ blocks' = r.blocks
    /\ last' = Did("_draw_main_shadow", RowsBelow(obj, r.shadow), r.branch, <<>>)

\* board.py lines 66-74
DrawMainShadow ==
    /\ pc = "board"
    /\ IF main_block = None
       THEN /\ blocks' = blocks
            /\ last' = Did("_draw_main_shadow", 0, "no main", <<>>)
       ELSE Drawn(draw_main_shadow(blocks, main_block), Deref(blocks, main_block))
    /\ UNCHANGED <<main_block, score, dead, fall, groupVars, blockVars, game, pc>>

NextQueries == Next \/ CanFall \/ DrawMainShadow

SpecQueries == Init /\ [][NextQueries]_vars

---------------------------------------------------------------------------
(* Specification of is_inbounds and has_overlap called with any object *)

\* the objects passed: one of each other kind, two Points, the live pieces
Items(blks) ==
    <<[kind |-> "int"], [kind |-> "NoneType"], [kind |-> "tuple"],
      [kind |-> "Point", pos |-> <<1 * U, 1 * U>>],
      [kind |-> "Point", pos |-> <<Rows * U, (Cols + 1) * U>>]>>
    \o [i \in 1..Len(blks) |-> [kind |-> "Block", obj |-> blks[i]]]

\* board.py lines 117-125
CallIsInbounds ==
    /\ pc = "board"
    /\ \E k \in 1..Len(Items(blocks)) :
          last' = Did("is_inbounds", k, IsInbounds(Items(blocks)[k]), <<>>)
    /\ UNCHANGED <<blocks, main_block, score, dead, fall, groupVars, blockVars, game, pc>>

\* board.py lines 127-135
CallHasOverlap ==
    /\ pc = "board"
    /\ \E k \in 1..Len(Items(blocks)) :
          last' = Did("has_overlap", k, HasOverlap(blocks, Items(blocks)[k]), <<>>)
    /\ UNCHANGED <<blocks, main_block, score, dead, fall, groupVars, blockVars, game, pc>>

NextItems == PlaceFallingBlock \/ Update \/ CallIsInbounds \/ CallHasOverlap

SpecItems == Init /\ [][NextItems]_vars

---------------------------------------------------------------------------
(* Specification of the Board with update run round by round: the loops of *)
(* lines 173-176 one round of the inner loop at a time, then lines 179-186 *)
(* in one step.  fall holds the speed, the list position i of the piece    *)
(* the outer loop is at, the rounds n done for it, and the pieces as they  *)
(* were when update was called.                                            *)

\* line 172: update(speed) is called
UpdateBegins ==
    /\ pc = "board"
    /\ score < MaxScore
    /\ \E speed \in Speeds :
          fall' = [at |-> "loop", speed |-> speed, i |-> 1, n |-> 0, from |-> blocks]
    /\ pc' = "update"
    /\ UNCHANGED <<blocks, main_block, score, dead, last, groupVars, blockVars, game>>

\* lines 173-174: the loop position after one more round for piece i
NextRound(f) ==
    IF f.n + 1 = Falls(f.speed)
    THEN [f EXCEPT !.i = @ + 1, !.n = 0]
    ELSE [f EXCEPT !.n = @ + 1]

\* lines 175-176: one round of the inner loop
FallRound ==
    /\ pc = "update"
    /\ fall.i <= Len(blocks)
    /\ blocks' = FallOnce(blocks, blocks[fall.i].id)
    /\ fall' = NextRound(fall)
    /\ UNCHANGED <<main_block, score, dead, last, groupVars, blockVars, game, pc>>

\* lines 179-186, after the last round of the last piece
UpdateEnds ==
    /\ pc = "update"
    /\ fall.i > Len(blocks)
    /\ Becomes(AfterFall(blocks, main_block, score, dead), "update", fall.speed)
    /\ fall' = NotFalling
    /\ pc' = "board"
    /\ UNCHANGED <<groupVars, blockVars, game>>

NextFall ==
    \/ PlaceFallingBlock
    \/ Left
    \/ Right
    \/ Rotate
    \/ UpdateBegins
    \/ FallRound
    \/ UpdateEnds

SpecFall == Init /\ [][NextFall]_vars

---------------------------------------------------------------------------
(* Specification of the Board with update called again and again: the game *)
(* loop calls update at every tick, so the next call is not put off for    *)
(* ever (weak fairness of the call), and a call that was made returns: the *)
(* loops of update are bounded.  The call and the return are two steps.    *)
(* Pieces are placed while the score is below the bound; update is called  *)
(* at any score.                                                           *)

\* a piece is placed, while the score is below the bound of the model
PlaceWhileBelowBound == score < MaxScore /\ PlaceFallingBlock

\* board.py line 170: update(speed) is called
TickBegins ==
    /\ pc = "board"
    /\ \E speed \in Speeds : fall' = [at |-> "called", speed |-> speed]
    /\ pc' = "tick"
    /\ UNCHANGED <<blocks, main_block, score, dead, last, groupVars, blockVars, game>>

\* board.py lines 172-186: the call returns
TickEnds ==
    /\ pc = "tick"
    /\ \E out \in {update(blocks, main_block, score, dead, fall.speed)} :
          Becomes(out, "update", fall.speed)
    /\ fall' = NotFalling
    /\ pc' = "board"
    /\ UNCHANGED <<groupVars, blockVars, game>>

NextTicks ==
    \/ PlaceWhileBelowBound
    \/ Left
    \/ Right
    \/ Rotate
    \/ TickBegins
    \/ TickEnds

\* every call of update returns
TicksEnd == []<>(pc = "board")

SpecTicks == Init /\ [][NextTicks]_vars /\ WF_vars(TickBegins) /\ TicksEnd

---------------------------------------------------------------------------
(* Specification of the Board with remove_line called for any row of the   *)
(* board, once or more in a row, as remove_lines does for the rows of a    *)
(* multi-row clear.  remove_line leaves main_block as it is, so the calls  *)
(* that use main_block are left out once it has run.                       *)

\* what the call of remove_line(r) finds: a piece cut before is cut again,
\* a piece is cut, or no piece has a square in the row
Cutting(blks, r) ==
    IF \E i \in 1..Len(blks) : /\ blks[i].color = BROKEN_PIECE_COLOR
                               /\ \E sq \in Range(blks[i].squares) : Row(sq) = r * U
    THEN "fragment cut"
    ELSE IF \E i \in 1..Len(blks) : \E sq \in Range(blks[i].squares) : Row(sq) = r * U
         THEN "cut"
         ELSE "none cut"

\* the board takes the outcome out of remove_line(r)
LineRemoved(out, r) ==
    /\ blocks' = out.blocks
    /\ score' = out.score
    /\ last' = Did("remove_line", r, Cutting(blocks, r), out.rows)

\* board.py lines 154-168
RemoveLine ==
    /\ pc \in {"board", "line"}
    /\ score < MaxLines
    /\ \E r \in 1..Rows :
          LineRemoved(remove_line([blocks |-> blocks, score |-> score, rows |-> <<>>],
                                  r, main_block), r)
    /\ pc' = "line"
    /\ UNCHANGED <<main_block, dead, fall, groupVars, blockVars, game>>

NextLines ==
    \/ PlaceFallingBlock
    \/ Rotate
    \/ Update
    \/ RemoveLine

SpecLines == Init /\ [][NextLines]_vars

---------------------------------------------------------------------------
(* Specification of the Game screen: Game.__init__, handle_key, update and *)
(* the main loop's get_events.  Board has no method get_new_falling_block, *)
(* so the calls of game.py lines 35 and 81 raise AttributeError: GameInit  *)
(* and GameUpdate are the code as it is.  GameInitSpawning and             *)
(* GameUpdateSpawning are the same lines with the call placing a piece, as *)
(* lines 114-115 of board.py do when random_block is given its arguments:  *)
(* without them the screen has no state to call update on.                 *)

\* game.py line 27
SCORE_BETWEEN_SPEED_UPS == 3

\* game.py lines 42-43 and screen.py line 37: the fields of a new Game
NewGame == [at |-> "game", speed |-> NORMAL_SPEED,
            next_score_milestone |-> SCORE_BETWEEN_SPEED_UPS, events |-> <<>>]

\* game.py lines 51-63: the keys told apart
Keys == {"K_UP", "K_z", "K_LEFT", "K_RIGHT", "K_DOWN", "K_SPACE"}

InitGame ==
    /\ BoardIdle
    /\ GroupIdle
    /\ BlockIdle
    /\ GameIdle
    /\ pc = "game"

\* the exception leaves the main loop: no call is made on the screen after it
Raised(g) == [g EXCEPT !.at = "AttributeError"]

\* game.py lines 29-43: line 34 makes the board, line 35 raises
GameInit ==
    /\ pc = "game"
    /\ game.at = "none"
    /\ game' = Raised(game)
    /\ last' = Did("Game.__init__", 0, "AttributeError", <<>>)
    /\ UNCHANGED <<blocks, main_block, score, dead, fall, groupVars, blockVars, pc>>

\* the piece of the shape built at the anchor goes onto the list as main piece
Spawned(blks, shape, a) ==
    Append(blks, [MakeBlock(shape, a) EXCEPT !.id = FreshId(Ids(blks))])

\* game.py lines 29-43, line 35 placing a piece
GameInitSpawning ==
    /\ pc = "game"
    /\ game.at = "none"
    /\ \E shape \in ShapeColors, a \in SpawnAnchors :
          /\ blocks' = Spawned(blocks, shape, a)
          /\ main_block' = FreshId(Ids(blocks))
    /\ game' = NewGame
    /\ last' = Did("Game.__init__", 0, "returned", <<>>)
    /\ UNCHANGED <<score, dead, fall, groupVars, blockVars, pc>>

\* game.py lines 52-59: the Board call made for the key
KeyMove(blks, m, key) ==
    IF key = "K_UP" THEN TryRotate(blks, m, TRUE)
    ELSE IF key = "K_z" THEN TryRotate(blks, m, FALSE)
    ELSE IF key = "K_LEFT" THEN TryLeft(blks, m)
    ELSE TryRight(blks, m)

\* game.py lines 60-63
KeySpeed(key) == IF key = "K_DOWN" THEN FAST_SPEED ELSE MAX_SPEED

\* game.py lines 51-63, called by the main loop before update
HandleKey ==
    /\ pc = "game"
    /\ game.at = "game"
    /\ game.events = <<>>
    /\ \E key \in Keys :
          IF key \in {"K_DOWN", "K_SPACE"}
          THEN /\ game' = [game EXCEPT !.speed = KeySpeed(key)]
               /\ last' = Did("handle_key", 0, key, <<>>)
               /\ blocks' = blocks
          ELSE IF main_block = None
          THEN /\ game' = Raised(game)
               /\ last' = Did("handle_key", 0, "AttributeError", <<>>)
               /\ blocks' = blocks
          ELSE \E r \in {KeyMove(blocks, Deref(blocks, main_block), key)} :
                  /\ blocks' = r.blocks
                  /\ last' = Did("handle_key", 0, key, <<>>)
                  /\ game' = game
    /\ UNCHANGED <<main_block, score, dead, fall, groupVars, blockVars, pc>>

\* game.py lines 82-84, on the score sc the board has
Milestone(g, sc) ==
    IF sc = g.next_score_milestone
    THEN [g EXCEPT !.events = Append(@, "SPEED_UP"),
                   !.next_score_milestone = @ + SCORE_BETWEEN_SPEED_UPS]
    ELSE g

\* game.py line 79
SpeedReset(g) == [g EXCEPT !.speed = NORMAL_SPEED]

\* game.py lines 74-75: the board is dead
GameOver ==
    /\ game' = [game EXCEPT !.events = @ \o <<"END_SCREEN", "RESET_SPEED">>]
    /\ last' = Did("Game.update", game.speed, "dead", <<>>)
    /\ UNCHANGED <<blocks, main_block, score, dead>>

\* game.py lines 77-84, the main piece out.main_block still set after
\* board.update: line 81 is not reached
GameAdvanced(out) ==
    /\ blocks' = out.blocks
    /\ main_block' = out.main_block
    /\ score' = out.score
    /\ dead' = out.dead
    /\ game' = Milestone(SpeedReset(game), out.score)
    /\ last' = Did("Game.update", game.speed, out.branch, out.rows)

\* game.py lines 77-81, no main piece after board.update: line 81 raises
GameRaised(out) ==
    /\ blocks' = out.blocks
    /\ main_block' = None
    /\ score' = out.score
    /\ dead' = out.dead
    /\ game' = Raised(SpeedReset(game))
    /\ last' = Did("Game.update", game.speed, "AttributeError", out.rows)

\* game.py lines 73-84, called by the main loop once the events of the
\* update before have been taken
GameUpdate ==
    /\ pc = "game"
    /\ game.at = "game"
    /\ game.events = <<>>
    /\ score < MaxGameScore
    /\ IF dead
       THEN GameOver
       ELSE \E out \in {update(blocks, main_block, score, dead, game.speed)} :
               IF out.main_block # None THEN GameAdvanced(out) ELSE GameRaised(out)
    /\ UNCHANGED <<fall, groupVars, blockVars, pc>>

\* game.py lines 77-84, no main piece after board.update and line 81
\* placing a piece
GameSpawned(out) ==
    /\ \E shape \in ShapeColors, a \in SpawnAnchors :
          /\ blocks' = Spawned(out.blocks, shape, a)
          /\ main_block' = FreshId(Ids(out.blocks))
    /\ score' = out.score
    /\ dead' = out.dead
    /\ game' = Milestone(SpeedReset(game), out.score)
    /\ last' = Did("Game.update", game.speed, out.branch, out.rows)

\* game.py lines 73-84 for a board that is not dead, line 81 placing a piece
GameUpdateSpawning ==
    /\ pc = "game"
    /\ game.at = "game"
    /\ game.events = <<>>
    /\ score < MaxGameScore
    /\ ~dead
    /\ \E out \in {update(blocks, main_block, score, dead, game.speed)} :
          /\ out.main_block = None
          /\ Len(out.blocks) < MaxGameBlocks
          /\ GameSpawned(out)
    /\ UNCHANGED <<fall, groupVars, blockVars, pc>>

\* screen.py lines 48-52 and main.py lines 43-60: the main loop takes the
\* events; END_SCREEN puts the End screen in the place of the Game
GetEvents ==
    /\ pc = "game"
    /\ game.at = "game"
    /\ game.events # <<>>
    /\ game' = [game EXCEPT !.events = <<>>,
                            !.at = IF "END_SCREEN" \in Range(game.events)
                                   THEN "ended" ELSE "game"]
    /\ last' = Did("get_events", 0, "", <<>>)
    /\ UNCHANGED <<blocks, main_block, score, dead, fall, groupVars, blockVars, pc>>

NextGame ==
    \/ GameInit
    \/ GameInitSpawning
    \/ HandleKey
    \/ GameUpdate
    \/ GameUpdateSpawning
    \/ GetEvents

SpecGame == InitGame /\ [][NextGame]_vars

---------------------------------------------------------------------------
(* Specification of find_connected_groups applied to duplicate-free lists *)

GridPoints == {<<r * U, c * U>> : r \in 1..GridRows, c \in 1..GridCols}

InitGroups ==
    /\ BoardIdle
    /\ GameIdle
    /\ BlockIdle
    /\ points \in InjectiveSeqs(GridPoints, MaxPts)
    /\ groups = NoCall
    /\ again = NoCall
    /\ pc = "find"

CallFindConnectedGroups ==
    /\ pc = "find"
    /\ groups' = find_connected_groups(points)
    /\ pc' = "found"
    /\ UNCHANGED <<boardVars, blockVars, game, points, again>>

\* block.py lines 135-171, called with the groups it returned, in one list
CallOnItsGroups ==
    /\ pc = "found"
    /\ groups.status = "ok"
    /\ again' = find_connected_groups(Concat(groups.groups))
    /\ pc' = "found again"
    /\ UNCHANGED <<boardVars, blockVars, game, points, groups>>

NextGroups == CallFindConnectedGroups \/ CallOnItsGroups

SpecGroups == InitGroups /\ [][NextGroups]_vars

---------------------------------------------------------------------------
(* Specification of Block.remove_row applied to pieces: the seven factory  *)
(* shapes in their four orientations, and every duplicate-free list of at  *)
(* most MaxPts squares of the grid as a fragment piece                     *)

RECURSIVE Turned(_, _)
Turned(b, k) == IF k = 0 THEN b ELSE Turned(BlockRotate(b, TRUE), k - 1)

BlockAnchors == {<<3 * U, 3 * U>>, <<2 * U, 3 * U>>}

OrientedPieces ==
    {Turned(MakeBlock(shape, a), k) : shape \in ShapeColors, a \in BlockAnchors, k \in 0..3}

ArbitraryPieces ==
    {Fragment(s) : s \in InjectiveSeqs(GridPoints, MaxPts) \ {<<>>}}

RowsTried == {r * U : r \in -2..7}

InitBlock ==
    /\ BoardIdle
    /\ GameIdle
    /\ GroupIdle
    /\ bl \in OrientedPieces \cup ArbitraryPieces
    /\ row \in RowsTried
    /\ pieces = <<>>
    /\ other = None
    /\ result = NoCall
    /\ pc = "remove_row"

CallRemoveRow ==
    /\ pc = "remove_row"
    /\ pieces' = remove_row(bl, row)
    /\ pc' = "removed"
    /\ UNCHANGED <<boardVars, groupVars, game, bl, row, other, result>>

NextBlock == CallRemoveRow

SpecBlock == InitBlock /\ [][NextBlock]_vars

---------------------------------------------------------------------------
(* Specification of Block.rotate applied one way and then the other way:   *)
(* to the factory shapes in their four orientations, and to pieces with    *)
(* the centre on any cell or half cell of the grid                         *)

HalfPoints == {<<r, c>> : r \in U..(GridRows * U + 1), c \in U..(GridCols * U + 1)}

CentredPieces ==
    {Block("T", s, c) : s \in InjectiveSeqs(GridPoints, MaxSquares) \ {<<>>},
                        c \in HalfPoints}

InitRotate ==
    /\ BoardIdle
    /\ GameIdle
    /\ GroupIdle
    /\ bl \in OrientedPieces \cup CentredPieces
    /\ row = 0
    /\ pieces = <<>>
    /\ other \in BOOLEAN
    /\ result = NoCall
    /\ pc = "rotate"

\* block.py lines 91-104: bl.rotate(other)
CallRotate ==
    /\ pc = "rotate"
    /\ result' = BlockRotate(bl, other)
    /\ pc' = "rotated"
    /\ UNCHANGED <<boardVars, groupVars, game, bl, row, pieces, other>>

\* block.py lines 91-104: the same object, rotate(not other)
CallRotateBack ==
    /\ pc = "rotated"
    /\ result' = BlockRotate(result, ~other)
    /\ pc' = "restored"
    /\ UNCHANGED <<boardVars, groupVars, game, bl, row, pieces, other>>

NextRotate == CallRotate \/ CallRotateBack

SpecRotate == InitRotate /\ [][NextRotate]_vars

---------------------------------------------------------------------------
(* Specification of == and hash() on two pieces: a factory shape in one of *)
(* its orientations, and a piece built from the same colour and centre     *)
(* with the same cells in another order, or with one cell elsewhere        *)

Reordered(b) ==
    {Block(b.color, [i \in 1..Len(b.squares) |-> b.squares[f[i]]], b.center) :
        f \in Permutations(1..Len(b.squares))}

\* the cells of the piece and the cells around them
NearCells(b) ==
    {PointMove(b.squares[i], dr, dc) : i \in 1..Len(b.squares), dr \in -1..1, dc \in -1..1}

OneSquareElsewhere(b) ==
    {Block(b.color, [b.squares EXCEPT ![i] = p], b.center) :
        i \in 1..Len(b.squares), p \in NearCells(b)} \ {b}

InitEq ==
    /\ BoardIdle
    /\ GameIdle
    /\ GroupIdle
    /\ bl \in OrientedPieces
    /\ row = 0
    /\ pieces = <<>>
    /\ other \in Reordered(bl) \cup OneSquareElsewhere(bl)
    /\ result = NoCall
    /\ pc = "compare"

\* block.py lines 112-122: bl == other, hash(bl), hash(other)
CallEq ==
    /\ pc = "compare"
    /\ result' = [eq |-> BlockEq(bl, other),
                  hash |-> BlockHash(bl),
                  hash_other |-> BlockHash(other)]
    /\ pc' = "compared"
    /\ UNCHANGED <<boardVars, groupVars, game, bl, row, pieces, other>>

NextEq == CallEq

SpecEq == InitEq /\ [][NextEq]_vars

---------------------------------------------------------------------------
(* Orthogonal connectivity, stated on its own for the claims *)

Orthogonal(p, q) == Abs(p[1] - q[1]) + Abs(p[2] - q[2]) = U

\* the points of P joined to a point of S by a chain of orthogonal steps in P
RECURSIVE ChainClosure(_, _)
ChainClosure(S, P) ==
    LET N == S \cup {q \in P : \E p \in S : Orthogonal(p, q)}
    IN  IF N = S THEN S ELSE ChainClosure(N, P)

Chained(P, p, q) == q \in ChainClosure({p}, P)

Components(P) == {ChainClosure({p}, P) : p \in P}

SameGroup(gs, p, q) == \E i \in 1..Len(gs) : p \in Range(gs[i]) /\ q \in Range(gs[i])

Count(s, x) == Cardinality({i \in 1..Len(s) : s[i] = x})

\* C1: for a duplicate-free list of points in any order, two points are in
\* the same returned group iff a chain of orthogonally adjacent input points
\* joins them.
C1_GroupsAreComponents ==
    pc = "found" /\ groups.status # "none" =>
        /\ groups.status = "ok"
        /\ \A p, q \in Range(points) :
               SameGroup(groups.groups, p, q) <=> Chained(Range(points), p, q)

\* C2: for a duplicate-free list of points the call returns, its groups are
\* non-empty and every input point occurs exactly once over all the groups
\* (nothing else occurs); the empty list gives no group.
C2_GroupsPartitionInput ==
    pc = "found" /\ groups.status # "none" =>
        /\ groups.status = "ok"
        /\ \A i \in 1..Len(groups.groups) : groups.groups[i] # <<>>
        /\ \A p \in Range(points) : Count(Concat(groups.groups), p) = 1
        /\ Range(Concat(groups.groups)) = Range(points)
        /\ (points = <<>> => groups.groups = <<>>)

\* C2 witness: four points came out as one group whose acceptor was not the
\* first input point, so a group of several points was merged into another.
C2_Witness ==
    /\ pc = "found"
    /\ groups.status = "ok"
    /\ Len(points) = 4
    /\ Len(groups.groups) = 1
    /\ groups.groups[1][1] # points[1]

\* the squares of all the fragments, as one list
FragmentSquares(frags) == Concat([i \in 1..Len(frags) |-> frags[i].squares])

\* C3: remove_row(r) leaves the piece as it was, and the squares of its
\* fragments are, as a multiset, the squares of the piece that are not in
\* row r.
C3_RemoveRowConserves ==
    [][pc = "remove_row" /\ pc' = "removed" =>
          /\ bl' = bl
          /\ \A p \in Range(bl.squares) \cup Range(FragmentSquares(pieces')) :
                 Count(FragmentSquares(pieces'), p) =
                     IF Row(p) = row THEN 0 ELSE Count(bl.squares, p)]_vars

\* C3 witness: a row through a piece was removed and squares were left
C3_Witness ==
    /\ pc = "removed"
    /\ \E p \in Range(bl.squares) : Row(p) = row
    /\ Len(pieces) >= 1
    /\ Len(FragmentSquares(pieces)) < Len(bl.squares)

\* the squares of the piece outside row r
RestOf(b, r) == {p \in Range(b.squares) : Row(p) # r}

\* r is a middle row of the piece: it has squares in r, above r and below r
MiddleRow(b, r) ==
    /\ \E p \in Range(b.squares) : Row(p) = r
    /\ \E p \in Range(b.squares) : Row(p) < r
    /\ \E p \in Range(b.squares) : Row(p) > r

\* C4: for a factory shape in any of its four orientations, remove_row(r)
\* returns one fragment per orthogonally connected component of the squares
\* outside row r (none when all squares are in row r, two when r is a middle
\* row of an upright I, J or L); each fragment has the broken-piece colour
\* and one of its own squares as centre.
C4_FragmentsAreComponents ==
    pc = "removed" /\ bl.color \in ShapeColors =>
        /\ Len(pieces) = Cardinality(Components(RestOf(bl, row)))
        /\ \A i \in 1..Len(pieces) :
              /\ Range(pieces[i].squares) \in Components(RestOf(bl, row))
              /\ pieces[i].color = BROKEN_PIECE_COLOR
              /\ pieces[i].center \in Range(pieces[i].squares)
        /\ (RestOf(bl, row) = {} => pieces = <<>>)
        /\ (bl.color \in {"I", "J", "L"} /\ MiddleRow(bl, row) => Len(pieces) = 2)

\* C4 witness: a middle row of an upright I was removed, two fragments
C4_Witness ==
    /\ pc = "removed"
    /\ bl.color = "I"
    /\ MiddleRow(bl, row)
    /\ Len(pieces) = 2

---------------------------------------------------------------------------
(* The Board claims.  A step of an operation is told by last' *)

DidStep(op) == last'.op = op /\ last'.branch # "AttributeError"

\* the cell is a square of a live piece other than the one with identity id
TakenByOther(blks, id, cell) ==
    \E i \in 1..Len(blks) : blks[i].id # id /\ cell \in Range(blks[i].squares)

\* a legal position: every square in bounds and on no square of another piece
Legal(blks, b) ==
    \A sq \in Range(b.squares) :
        /\ Row(sq) <= Rows * U
        /\ Col(sq) >= U
        /\ Col(sq) <= Cols * U
        /\ ~TakenByOther(blks, b.id, sq)

\* the piece b with every square and the centre moved by dr rows, dc columns
Shifted(b, dr, dc) ==
    [b EXCEPT !.squares = [i \in 1..Len(b.squares) |->
                              <<b.squares[i][1] + dr * U, b.squares[i][2] + dc * U>>],
              !.center = <<b.center[1] + dr * U, b.center[2] + dc * U>>]

\* the pieces other than the one with identity id are the same, in place
OthersUnchanged(id) ==
    /\ Len(blocks') = Len(blocks)
    /\ \A i \in 1..Len(blocks) :
           IF blocks[i].id = id THEN blocks'[i].id = id ELSE blocks'[i] = blocks[i]

\* C5: when rotate(clockwise) returns, the main piece is in the rotated
\* position and that position is legal, or it is exactly where it was before
\* the call.  Stated for the calls made with the main piece in a legal
\* position, the calls in which it is the rotation that brings the overlap.
C5_RotateLegalOrReverted ==
    [][DidStep("rotate") /\ Legal(blocks, Deref(blocks, main_block)) =>
          LET before == Deref(blocks, main_block)
              after  == Deref(blocks', main_block)
          IN  \/ /\ after = BlockRotate(before, last'.arg = 1)
                 /\ Legal(blocks', after)
              \/ after = before]_vars

\* C6: left and right leave the main piece where it was when the move by one
\* column would take a square out of columns 1..Cols or onto a square of
\* another live piece, and otherwise move every square and the centre by one
\* column; the other pieces, the score and dead do not change.
C6_MoveOrStay ==
    [][DidStep("left") \/ DidStep("right") =>
          LET before == Deref(blocks, main_block)
              after  == Deref(blocks', main_block)
              target == Shifted(before, 0, IF last'.op = "left" THEN -1 ELSE 1)
              barred == \E sq \in Range(target.squares) :
                            \/ Col(sq) < U
                            \/ Col(sq) > Cols * U
                            \/ TakenByOther(blocks, main_block, sq)
          IN  /\ after = IF barred THEN before ELSE target
              /\ OthersUnchanged(main_block)
              /\ main_block' = main_block
              /\ score' = score
              /\ dead' = dead]_vars

\* C6 witness: right() was called with the main piece in the last column,
\* and the move was taken back
C6_Witness ==
    /\ last.op = "right"
    /\ last.branch = "reverted"
    /\ main_block # None
    /\ \E sq \in Range(Deref(blocks, main_block).squares) : Col(sq) = Cols * U

\* the cells that hold a square of a piece
SquaresOn(blks) == UNION {Range(blks[i].squares) : i \in 1..Len(blks)}

\* the rows of the board in which every column is among the cells held
FullRows(held) == {r \in 1..Rows : \A c \in 1..Cols : <<r * U, c * U>> \in held}

C8_LandingSetsDead ==
    [][DidStep("update") /\ main_block # None /\ main_block \in Ids(blocks') =>
          LET m == Deref(blocks', main_block)
          IN  IF Legal(blocks', Shifted(m, 1, 0))
              THEN main_block' = main_block /\ dead' = dead
              ELSE /\ main_block' = None
                   /\ dead' = (\E sq \in Range(m.squares) : Row(sq) <= 0)]_vars

\* C8 witness: the main piece came to rest with a square above the board
C8_Witness ==
    /\ last.op = "update"
    /\ last.branch = "landed"
    /\ main_block = None
    /\ dead

\* C9: once dead is true it stays true, whatever Board operation follows.
C9_DeadIsTerminal == [][dead => dead']_vars

\* C10: main_block is unset or references a piece of the live-piece list.
C10_MainIsLive == main_block = None \/ main_block \in Ids(blocks)

\* C10 witness: a row clear took the main piece out of the list, and
\* main_block was unset
C10_Witness ==
    /\ last.op = "update"
    /\ last.branch = "consumed"
    /\ main_block = None
    /\ blocks # <<>>

\* C11: the score never decreases; an update call raises it by the number
\* of rows it removed, and every other Board call (left, right, rotate,
\* new_falling_block, placing a piece, can_fall, drawing the shadow) leaves
\* it as it was.
C11_ScoreOnlyByUpdate ==
    [][/\ score' >= score
       /\ (last'.op = "update" => score' = score + Len(last'.rows))
       /\ (last'.op # "update" => score' = score)]_vars

\* C11 witness: after an update call removed a row, can_fall was called
C11_Witness ==
    /\ score >= 1
    /\ last.op = "can_fall"

\* C12: for a piece with integer or half-integer centre, rotate(d) followed
\* by rotate(not d), for either direction d, leaves every square where it
\* was; the centre is not moved by a rotation.
C12_RotateThereAndBack ==
    /\ (pc = "rotated" => result.center = bl.center)
    /\ (pc = "restored" => result.squares = bl.squares /\ result.center = bl.center)

\* C12 witness: a piece with a centre on half cells was turned and turned
\* back, and the turn moved its squares
C12_Witness ==
    /\ pc = "restored"
    /\ bl.center[1] % U = 1
    /\ bl.center[2] % U = 1
    /\ BlockRotate(bl, other).squares # bl.squares

\* the groups as sets of points, without the order of the groups
GroupSets(gs) == {Range(gs[i]) : i \in 1..Len(gs)}

\* C13: for a duplicate-free list of grid points, find_connected_groups
\* called on the concatenation of the groups it returned gives the same
\* groups, up to the order of the groups and of the points in a group.
C13_RegroupingIsStable ==
    pc = "found again" =>
        /\ again.status = "ok"
        /\ Len(again.groups) = Len(groups.groups)
        /\ GroupSets(again.groups) = GroupSets(groups.groups)

\* C13 witness: the second call was made on two groups of several points
\* that came out in another order than the points went in
C13_Witness ==
    /\ pc = "found again"
    /\ Len(groups.groups) = 2
    /\ Len(groups.groups[1]) = 2
    /\ Len(groups.groups[2]) = 2
    /\ Concat(groups.groups) # points

\* C14: two pieces built from the same colour, the same cells in any order
\* and the same centre are equal and have the same hash; a piece with one
\* square in another position is not equal to the original.
C14_EqualByCells ==
    pc = "compared" =>
        /\ (other \in Reordered(bl) =>
                /\ result.eq
                /\ result.hash.status = "ok"
                /\ result.hash_other.status = "ok"
                /\ result.hash.value = result.hash_other.value)
        /\ (other \in OneSquareElsewhere(bl) => ~result.eq)

\* == alone, for pieces whose squares are in distinct cells: equal exactly
\* when the cells are the same in some order
EqualityOfDistinctCells ==
    pc = "compared" /\ Cardinality(Range(other.squares)) = Len(other.squares) =>
        (result.eq <=> other \in Reordered(bl))

\* C15: can_fall(piece) returns true exactly when the piece one row lower
\* has every square in bounds and on no square of another live piece; when
\* it returns, the piece, every other piece, main_block, score and dead are
\* as before the call.
C15_CanFallProbes ==
    [][last'.op = "can_fall" =>
          /\ (last'.branch = "True") <=>
                 Legal(blocks, Shifted(Deref(blocks, last'.arg), 1, 0))
          /\ blocks' = blocks
          /\ main_block' = main_block
          /\ score' = score
          /\ dead' = dead]_vars

\* C15 witness: can_fall returned false for a piece that is in bounds one
\* row lower, where it is on a square of another piece
C15_Witness ==
    /\ last.op = "can_fall"
    /\ last.branch = "False"
    /\ Len(blocks) >= 2
    /\ is_inbounds(Shifted(Deref(blocks, last.arg), 1, 0))

\* the position is a whole cell
OnGrid(p) == Row(p) % U = 0 /\ Col(p) % U = 0

\* C16: in every reachable state every square of every live piece has an
\* integer row and an integer column, after any sequence of placements of
\* the seven shapes, translations, rotations in either direction and row
\* removals.
C16_SquaresOnGrid ==
    \A i \in 1..Len(blocks) : \A k \in 1..Len(blocks[i].squares) :
        OnGrid(blocks[i].squares[k])

\* C16 witness: an I piece, its centre on half cells, stands upright after a
\* rotation, next to a fragment left by a row removal
C16_Witness ==
    \E i, j \in 1..Len(blocks) :
        /\ blocks[i].color = "I"
        /\ ~OnGrid(blocks[i].center)
        /\ \A k \in 1..Len(blocks[i].squares) :
               Col(blocks[i].squares[k]) = Col(blocks[i].squares[1])
        /\ blocks[j].color = BROKEN_PIECE_COLOR

\* main_block references a newly built piece of one of the seven shapes
\* with four distinct squares, the piece is in the list, and the pieces that
\* were in the list are still there as they were
NewMainPlaced ==
    /\ main_block' # None
    /\ main_block' \notin Ids(blocks)
    /\ main_block' \in Ids(blocks')
    /\ Deref(blocks', main_block').color \in ShapeColors
    /\ Cardinality(Range(Deref(blocks', main_block').squares)) = 4
    /\ Len(blocks') = Len(blocks) + 1
    /\ \A i \in 1..Len(blocks) : blocks'[i] = blocks[i]

\* C17: when a call of new_falling_block ends, main_block is a newly built
\* piece of one of the seven standard shapes with four distinct squares,
\* that piece is in the live-piece list, and every piece that was live
\* before is still in the list with its squares unchanged.
C17_NewFallingBlockPlaces ==
    [][last'.op = "new_falling_block" => NewMainPlaced]_vars

\* lines 114-115 with random_block given its arguments do place a new piece
PlacedPieceIsNew ==
    [][last'.op = "place" => NewMainPlaced]_vars

\* the two lists hold the same pieces the same number of times
SamePieces(a, b) ==
    \A x \in Range(a) \cup Range(b) : Count(a, x) = Count(b, x)

\* C18: drawing the drop shadow of the main piece (copy the piece, then
\* lower the copy while can_fall holds) ends and leaves the board as it was:
\* the same live pieces with the same squares and centres, the same
\* main_block, score and dead; the shadow copy is not a live piece.
C18_ShadowLeavesBoard ==
    [][last'.op = "_draw_main_shadow" =>
          /\ SamePieces(blocks', blocks)
          /\ main_block' = main_block
          /\ score' = score
          /\ dead' = dead
          /\ \A i \in 1..Len(blocks') : blocks'[i].color # SHADOW_COLOR]_vars

\* where the main piece is the only live piece equal to it, the drawing of
\* the shadow leaves the list as it was, in the same order
ShadowLeavesUnequalPieces ==
    [][/\ last'.op = "_draw_main_shadow"
       /\ main_block # None
       /\ \A i \in 1..Len(blocks) :
              blocks[i].id # main_block => ~BlockEq(blocks[i], Deref(blocks, main_block))
       => blocks' = blocks]_vars

\* C19: is_inbounds and has_overlap, given an object that is neither a Block
\* nor a Point, end in an error (TypeError) and not in true or false, and
\* leave the board as it was.
C19_OtherKindsRaise ==
    [][/\ last'.op \in {"is_inbounds", "has_overlap"}
       /\ Items(blocks)[last'.arg].kind \in OtherKinds
       => /\ last'.branch = "TypeError"
          /\ blocks' = blocks
          /\ main_block' = main_block
          /\ score' = score
          /\ dead' = dead]_vars

\* C19 witness: is_inbounds was called with None on a board with two live
\* pieces and ended in TypeError
C19_Witness ==
    /\ last.op = "is_inbounds"
    /\ Items(blocks)[last.arg].kind = "NoneType"
    /\ last.branch = "TypeError"
    /\ Len(blocks) = 2

\* C20: in the falling phase of update(speed) a piece goes down one row
\* only in a round of its own, with every other piece where it was, and
\* only when the piece one row lower is in bounds and on no square of
\* another live piece; when the phase is over each live piece is k rows
\* lower than at the call, 0 <= k <= falls, in the same columns, where
\* falls is speed, or the number of rows of the board for MAX_SPEED.
C20_FallingPhase ==
    [][pc' = "update" =>
          /\ Len(blocks') = Len(blocks)
          /\ \A i \in 1..Len(blocks) :
                 blocks'[i] # blocks[i] =>
                     /\ pc = "update"
                     /\ i = fall.i
                     /\ blocks'[i] = Shifted(blocks[i], 1, 0)
                     /\ Legal(blocks, Shifted(blocks[i], 1, 0))
          /\ (fall'.i > Len(blocks') =>
                 \A i \in 1..Len(blocks') :
                     \E k \in 0..(IF fall'.speed = MAX_SPEED THEN Rows ELSE fall'.speed) :
                         blocks'[i] = Shifted(fall'.from[i], k, 0))]_vars

\* C20 witness: the falling phase of update(FAST_SPEED) is over, one piece
\* went down two rows and another, held up, went down one row
C20_Witness ==
    /\ pc = "update"
    /\ fall.speed = FAST_SPEED
    /\ fall.i > Len(blocks)
    /\ \E i, j \in 1..Len(blocks) :
           /\ blocks[i] = Shifted(fall.from[i], 2, 0)
           /\ blocks[j] = Shifted(fall.from[j], 1, 0)

\* the rounds of the falling phase end where update, taken in one step,
\* has the pieces after its loops
RoundsAsFallFrom ==
    pc = "update" /\ fall.i > Len(blocks) =>
        blocks = FallFrom(fall.from, 1, Falls(fall.speed))

---------------------------------------------------------------------------
(* The claims on row clears, overlap, bounds and the hard drop *)

\* the square lies in one of the rows rs
InRows(sq, rs) == \E r \in rs : Row(sq) = r * U

\* C21: when a row cleared by update holds a square of the main piece,
\* main_block is unset when update returns, the piece it referenced is no
\* longer in the live list, and each of its squares outside the cleared rows
\* is a square of a live piece of the broken colour made of its squares.
C21_CutMainBecomesFragments ==
    [][DidStep("update") /\ main_block # None =>
          \A fallen \in {FallFrom(blocks, 1, Falls(last'.arg))} :
              \A full \in {FullRows(SquaresOn(fallen))} :
                  \A m \in {Deref(fallen, main_block)} :
                      (\E sq \in Range(m.squares) : InRows(sq, full)) =>
                          /\ main_block' = None
                          /\ main_block \notin Ids(blocks')
                          /\ \A sq \in Range(m.squares) :
                                 ~InRows(sq, full) =>
                                     \E i \in 1..Len(blocks') :
                                         /\ blocks'[i].color = BROKEN_PIECE_COLOR
                                         /\ sq \in Range(blocks'[i].squares)
                                         /\ Range(blocks'[i].squares) \subseteq
                                                Range(m.squares)]_vars

\* C21 witness: a row clear cut the main piece and the other piece, and the
\* squares of both outside the row are fragments
C21_Witness ==
    /\ last.op = "update"
    /\ last.branch = "consumed"
    /\ Len(last.rows) = 1
    /\ blocks # <<>>
    /\ \A i \in 1..Len(blocks) : blocks[i].color = BROKEN_PIECE_COLOR

\* the pieces of the list with no square in row r
Clear(blks, r) ==
    SelectSeq(blks, LAMBDA b : \A sq \in Range(b.squares) : Row(sq) # r * U)

\* the pieces of the list that are pieces of the list before, unchanged
Old(after, before) == SelectSeq(after, LAMBDA b : b \in Range(before))

\* the number of squares of the pieces of the list
RECURSIVE SquareCount(_)
SquareCount(blks) ==
    IF blks = <<>> THEN 0 ELSE Len(Head(blks).squares) + SquareCount(Tail(blks))

\* the squares the pieces of the list have outside row r, counted per piece
RECURSIVE CountOffRow(_, _)
CountOffRow(blks, r) ==
    IF blks = <<>> THEN 0
    ELSE Cardinality({i \in 1..Len(Head(blks).squares) : Row(Head(blks).squares[i]) # r * U})
             + CountOffRow(Tail(blks), r)

\* C22: remove_line(r) keeps every live piece with no square in row r in
\* the list as the same piece, colour, squares and centre unchanged, and in
\* the same order; a piece with a square in row r leaves the list and its
\* squares outside row r are the squares of new pieces of the broken colour,
\* none when no square remains.  This holds for every call of a series, also
\* when the piece cut is a fragment an earlier call made.
C22_RemoveLineCutsOrKeeps ==
    [][last'.op = "remove_line" /\ pc' = "line" =>
          \A r \in {last'.arg} :
              /\ Old(blocks', blocks) = Clear(blocks, r)
              /\ \A i \in 1..Len(blocks') :
                     blocks'[i] \notin Range(blocks) =>
                         /\ blocks'[i].color = BROKEN_PIECE_COLOR
                         /\ blocks'[i].squares # <<>>
                         /\ \E j \in 1..Len(blocks) :
                                /\ blocks[j] \notin Range(blocks')
                                /\ Range(blocks'[i].squares) \subseteq RestOf(blocks[j], r * U)
              /\ \A j \in 1..Len(blocks) :
                     \A sq \in RestOf(blocks[j], r * U) :
                         \E i \in 1..Len(blocks') : sq \in Range(blocks'[i].squares)
              /\ SquareCount(blocks') = CountOffRow(blocks, r)
              /\ score' = score + 1]_vars

\* C22 witness: the second call of a series cut a fragment that the first
\* call made, and another fragment, with no square in the row, stayed
C22_Witness ==
    /\ pc = "line"
    /\ last.op = "remove_line"
    /\ last.branch = "fragment cut"
    /\ score = 2
    /\ \E i \in 1..Len(blocks) :
           /\ blocks[i].color = BROKEN_PIECE_COLOR
           /\ \A sq \in Range(blocks[i].squares) : Row(sq) < last.arg * U

\* C23: in every state reached by new_falling_block, placing a piece, left,
\* right, rotate and update, no cell holds squares of two distinct live
\* pieces.
C23_NoSharedCell ==
    \A i, j \in 1..Len(blocks) :
        i # j => Range(blocks[i].squares) \cap Range(blocks[j].squares) = {}

\* a rotate call made with no cell shared ends with a cell shared
RotateOntoAnotherPiece ==
    [][C23_NoSharedCell /\ DidStep("rotate") => C23_NoSharedCell']_vars

\* C24: every square of every live piece has a row <= Rows and a column in
\* 1..Cols, the pieces being built at anchors where they are in bounds:
\* no move, rotation, fall or row removal takes a square out of these bounds.
C24_SquaresInBounds ==
    \A i \in 1..Len(blocks) : \A sq \in Range(blocks[i].squares) :
        /\ Row(sq) <= Rows * U
        /\ Col(sq) >= 1 * U
        /\ Col(sq) <= Cols * U

\* C24 witness: a rotation that took a square of the main piece out of
\* bounds was taken back, with the piece on the bottom row and at a side
\* column
C24_Witness ==
    /\ last.op = "rotate"
    /\ last.branch = "reverted"
    /\ main_block # None
    /\ \E sq \in Range(Deref(blocks, main_block).squares) : Row(sq) = Rows * U
    /\ \E sq \in Range(Deref(blocks, main_block).squares) :
           Col(sq) = 1 * U \/ Col(sq) = Cols * U

\* C25: when update is called with MAX_SPEED while a main piece is set,
\* main_block is unset when the call returns: the hard drop does not leave
\* the main piece able to fall.
C25_HardDropLands ==
    [][DidStep("update") /\ last'.arg = MAX_SPEED /\ main_block # None =>
          main_block' = None]_vars

\* the orders a list of n pieces can be in
Orders(n) == {f \in [1..n -> 1..n] : \A i, j \in 1..n : f[i] = f[j] => i = j}

\* the pieces of the list in the order f
InOrder(blks, f) == [i \in 1..Len(blks) |-> blks[f[i]]]

\* the cells of the main piece, none when main_block is unset
MainCells(blks, main) == IF main = None THEN {} ELSE Range(Deref(blks, main).squares)

\* C26: the outcome of update(speed) does not depend on the order of the
\* list of live pieces: called on a board with the same pieces at the same
\* positions in any other order, it ends with the same cells held, the same
\* score, the same dead and the main piece on the same cells.
C26_UpdateWhateverTheOrder ==
    [][DidStep("update") =>
          \A f \in Orders(Len(blocks)) :
              \A out \in {update(InOrder(blocks, f), main_block, score, dead, last'.arg)} :
                  /\ SquaresOn(out.blocks) = SquaresOn(blocks')
                  /\ out.score = score'
                  /\ out.dead = dead'
                  /\ MainCells(out.blocks, out.main_block) = MainCells(blocks', main_block')]_vars

\* the same for the update calls made with no cell shared by two pieces
OrderMattersWithoutOverlap ==
    [][DidStep("update") /\ C23_NoSharedCell =>
          \A f \in Orders(Len(blocks)) :
              SquaresOn(update(InOrder(blocks, f), main_block, score, dead, last'.arg).blocks)
                  = SquaresOn(blocks')]_vars

\* C27: from every reachable state in which a main piece is set, with update
\* called again and again, at any speed and with any left, right and rotate
\* calls between the update calls, main_block becomes unset.
C27_MainComesToRest == (main_block # None) ~> (main_block = None)

\* C27 witness: the main piece stayed set, able to fall, through an update
\* call that removed a row, and a later update call found it at rest
C27_Witness ==
    /\ last.op = "update"
    /\ last.branch = "landed"
    /\ last.rows = <<>>
    /\ score >= 1
    /\ main_block = None

\* C28: for an O piece as the factory builds it, at any anchor, rotate in
\* either direction leaves the set of its four cells as it was.
C28_ORotationKeepsCells ==
    pc = "rotated" /\ (\E a \in BlockAnchors : bl = make_O_block(a)) =>
        Range(result.squares) = Range(bl.squares)

---------------------------------------------------------------------------
(* The Game claims *)

\* C29: after every Game.update call that returns, made on a board that is
\* not dead, the score is below next_score_milestone: SPEED_UP is emitted
\* and the milestone moved on whenever the score reaches or passes it, also
\* when one update removes several rows.
C29_ScoreBelowMilestone ==
    [][DidStep("Game.update") /\ ~dead => score' < game'.next_score_milestone]_vars

\* C30: the Game screen has a main piece whenever handle_key can call left,
\* right or rotate: Game.__init__ returns, every Game.update that advances
\* the board returns, and when they have returned main_block is set, also
\* after the update in which dead became true.
C30_GameHasMainPiece ==
    /\ game.at # "AttributeError"
    /\ (game.at = "game" => main_block # None)

===========================================================================
